---- MODULE Spec2Model ----
(***************************************************************************)
(* Model of sdl3-intra-compat.py: the tag pipeline, the comparison engine  *)
(* with its process runner, and the report printer.                        *)
(*                                                                         *)
(* Strings that the program inspects (test names, case names, filters)     *)
(* are sequences of one-character strings, so that Python's substring test *)
(* is computed, not assumed.  Tags are numbers: other_tags is             *)
(* args.other_tags in caller-supplied order, Dut is args.dut_tag.  Time is *)
(* the runner's clock in seconds, relative to the start of the current     *)
(* child.                                                                  *)
(***************************************************************************)
EXTENDS Integers, Sequences, FiniteSets, TLC

\* ------------------------------------------------------------------ bounds

\* Exit statuses a child may end with are 0..MaxStatus.
MaxStatus == 1

\* ------------------------------------------------------- program constants

MAX_TEST_TIME == 60000

SUCCESS == "SUCCESS"
FAILED == "FAILED"
TIMEOUT == "TIMEOUT"
NA == "n/a"
SKIP == "SKIP"

TestResult == {SUCCESS, FAILED, TIMEOUT, NA, SKIP}

\* The literal "testautomation" of main.
testautomation == <<"t","e","s","t","a","u","t","o","m","a","t","i","o","n">>

\* ------------------------------------------------------------------ inputs

\* Python's None, for the variables that otherwise hold a number.
None == 0 - 1

\* args.dut_tag and args.other_tags; tags = list(args.other_tags) + [args.dut_tag]
Dut == 0
other_tags == <<1, 2>>
tags_DutFirst == <<Dut>> \o other_tags

tags == other_tags \o <<Dut>>

\* Exit statuses of a child that ends on its own.
ExitStatuses == 0..MaxStatus

testver == <<"t","e","s","t","v","e","r">>
case_a == <<"a","_","1">>
case_b == <<"b","_","1">>

\* (major, minor, micro) triples a version header may hold.
Versions == {<<0, 1, 1>>, <<1, 0, 0>>, <<1, 0, 1>>}

\* Values of --filter-tests and --filter-testautomation (<< >>: not given).
TestFilters == {<< >>, <<"v","e","r">>}
CaseFilters == {<< >>, <<"a">>}

\* Clock readings (seconds since the child was started) the runner may see.
TimePoints == {0, 61, MAX_TEST_TIME + 1}

\* ----------------------------------------------------------- pure helpers

\* A substring test that only looks at the start of the haystack.
Contains_PrefixOnly(haystack, needle) ==
    /\ Len(needle) <= Len(haystack)
    /\ \A k \in 1..Len(needle) : haystack[k] = needle[k]

\* Python: needle in haystack, for str.
Contains(haystack, needle) ==
    \E i \in 0..(Len(haystack) - Len(needle)) :
        \A k \in 1..Len(needle) : haystack[i + k] = needle[k]

\* A version comparison that only looks at the major number.
TupleLE_MajorOnly(a, b) == a[1] <= b[1]

\* Python: a <= b for tuples of ints (first differing item decides).
RECURSIVE TupleLE(_, _)
TupleLE(a, b) ==
    IF a = << >> THEN TRUE
    ELSE IF b = << >> THEN FALSE
    ELSE IF Head(a) # Head(b) THEN Head(a) < Head(b)
    ELSE TupleLE(Tail(a), Tail(b))

\* Python: [t for t in cases if flt in t]
RECURSIVE FilterCases(_, _)
FilterCases(cases, flt) ==
    IF cases = << >> THEN << >>
    ELSE IF Contains(Head(cases), flt)
         THEN <<Head(cases)>> \o FilterCases(Tail(cases), flt)
         ELSE FilterCases(Tail(cases), flt)

\* Elements of a sequence.
Range(s) == {s[i] : i \in DOMAIN s}

\* The Exec line of an installed descriptor of a tag: the test binary of that tag.
ExecOf(tag, name) == <<[tag |-> tag, exe |-> name]>>

\* get_unit_tests: descriptor stem -> shlex.split(Exec), in directory order.
get_unit_tests(tag, stems) ==
    [i \in DOMAIN stems |-> [name |-> stems[i], cmd |-> ExecOf(tag, stems[i])]]

\* name in TAG_TESTS[tag]
HasTest(tests, name) == \E i \in DOMAIN tests : tests[i].name = name

\* TAG_TESTS[tag][name]
CmdOf(tests, name) == tests[CHOOSE i \in DOMAIN tests : tests[i].name = name].cmd

\* d[k] = v for a dict d (a function whose domain grows).
DictPut(d, k, v) == [x \in DOMAIN d \cup {k} |-> IF x = k THEN v ELSE d[x]]

\* d.get(k, default)
DictGet(d, k, default) == IF k \in DOMAIN d THEN d[k] ELSE default

EmptyDict == [x \in {} |-> NA]

\* args.filter and args.filter not in name (an empty or absent filter is falsy).
FilteredOut(flt, name) == flt # << >> /\ ~Contains(name, flt)

\* An accumulation that forgets the flag's earlier value.
Accumulate_Overwrite(succ, result) == result = SUCCESS /\ result \notin {NA, SKIP}

\* success and test_result == SUCCESS and test_result not in (NA, SKIP)
Accumulate(succ, result) == succ /\ result = SUCCESS /\ result \notin {NA, SKIP}

\* A classification that never looks at whether the child is still running.
Classify_NoTimeout(state, rc) == IF rc = 0 THEN SUCCESS ELSE FAILED

\* The if/elif/else after the polling loop of run_process_with_timeout.
Classify(state, rc) ==
    IF state = "running" THEN TIMEOUT
    ELSE IF rc = 0 THEN SUCCESS
    ELSE FAILED

\* A timeout path that leaves the child alone.
Kill_Forgotten(state) == state

\* child.kill() on a child whose poll() is None.
Kill(state) == IF state = "running" THEN "killed" ELSE state

\* A deadline test that never fires.
DeadlinePassed_Never(elapsed_, timeout_) == FALSE

\* time.time() > start + timeout, with elapsed = time.time() - start
DeadlinePassed(elapsed_, timeout_) == elapsed_ > timeout_

\* ------------------------------------------------------------------- state

VARIABLES
    args,                    \* parsed command line
    fs,                      \* what each tag's checkout and prefix hold
    pc,                      \* position of main
    ti,                      \* index of the tag loop in progress
    j,                       \* index of the test or case loop in progress
    TAG_VERSION,
    TAG_TESTS,
    TAG_AUTOMATION_CASES,
    all_test_names,
    all_automation_cases,
    TEST_RESULTS,
    TESTAUTOMATION_RESULTS,
    success,
    test_result,
    procs,                   \* every child spawned so far, in spawn order
    rpc,                     \* position of run_process_with_timeout
    elapsed,                 \* time.time() - start of the call in progress
    timeout,                 \* the timeout argument of the call in progress
    returncode,              \* child.returncode of the call in progress
    exited_at,               \* clock reading at which the current child exited
    table_auto,              \* cells of the printed testautomation table
    table_tests,             \* cells of the printed unit-test table
    exit_code,
    exception,
    TAG_PREF,
    ps,                      \* step of the pipeline iteration in progress
    steps,                   \* the pipeline steps run so far, in order
    child_environ,
    in_group,                \* GitHubSectionPrinter.in_group
    unclosed                 \* "::group::" lines printed minus "::endgroup::" lines

vars == <<args, fs, pc, ti, j, TAG_VERSION, TAG_TESTS, TAG_AUTOMATION_CASES,
          all_test_names, all_automation_cases, TEST_RESULTS,
          TESTAUTOMATION_RESULTS, success, test_result, procs, rpc, elapsed,
          timeout, returncode, exited_at, table_auto, table_tests, exit_code,
          exception, TAG_PREF, ps, steps, child_environ, in_group, unclosed>>

pipelineVars == <<TAG_VERSION, TAG_TESTS, TAG_AUTOMATION_CASES,
                  all_test_names, all_automation_cases, TAG_PREF, ps, steps,
                  child_environ>>
printerVars == <<in_group, unclosed>>
runnerVars == <<procs, rpc, elapsed, timeout, returncode, exited_at>>
reportVars == <<table_auto, table_tests, exit_code, exception>>

NoTable == [x \in {} |-> NA]

\* What a tag's tree may hold: the stems of the descriptors under
\* share/installed-tests/SDL3 in iterdir order, and the case names matched in
\* test/testautomation*.c in match order.
Trees ==
    { [tests |-> << >>, cases |-> << >>],
      [tests |-> <<testver>>, cases |-> <<case_a>>],
      [tests |-> <<testver, testautomation>>, cases |-> << >>],
      [tests |-> <<testautomation>>, cases |-> <<case_a, case_b>>] }

DutTrees ==
    { [tests |-> << >>, cases |-> << >>],
      [tests |-> <<testver>>, cases |-> <<case_b>>] }

DutVersions == {<<1, 0, 0>>}

\* include/SDL3/SDL_version.h without the "#define SDL_*_VERSION" lines.
NoVersion == << >>

\* Runs that neither clone nor build (the trees are already in place), with
\* every filter and every version ordering.
EngineArgs ==
    [filter_tests : TestFilters,
     filter_testautomation : CaseFilters,
     testautomation : BOOLEAN,
     clone : {FALSE}, build : {FALSE}, github : {FALSE}]

\* Runs with any of --clone, --build, --github, over trees that may lack the
\* version constants.
PipelineArgs ==
    [filter_tests : TestFilters,
     filter_testautomation : {<< >>},
     testautomation : BOOLEAN,
     clone : BOOLEAN, build : BOOLEAN, github : BOOLEAN]

PipelineVersions == {<<1, 0, 0>>, NoVersion}

PipelineTrees ==
    { [tests |-> <<testautomation>>, cases |-> <<case_a>>] }

\* os.environ of the script itself: each value is a list of path entries
\* (joined by os.path.pathsep), each entry a list of path components.
os_environ ==
    [n \in {"PATH", "HOME", "LD_LIBRARY_PATH"} |->
        CASE n = "PATH" -> <<<<"usr", "bin">>, <<"bin">>>>
          [] n = "HOME" -> <<<<"home">>>>
          [] n = "LD_LIBRARY_PATH" -> <<<<"opt", "lib">>>>]

\* args.cwd
cwd == <<"cwd">>

InitFrom(Args, OtherVersions, OtherTrees, DVersions, DTrees) ==
    /\ args \in Args
    /\ \E vs \in [Range(other_tags) -> OtherVersions],
          tr \in [Range(other_tags) -> OtherTrees],
          dv \in DVersions, dt \in DTrees :
          fs = [t \in Range(tags) |->
                   IF t = Dut
                   THEN [version |-> dv, tests |-> dt.tests, cases |-> dt.cases]
                   ELSE [version |-> vs[t], tests |-> tr[t].tests,
                         cases |-> tr[t].cases]]
    /\ pc = "start"
    /\ ti = 0
    /\ j = 0
    /\ TAG_VERSION = EmptyDict
    /\ TAG_TESTS = EmptyDict
    /\ TAG_AUTOMATION_CASES = EmptyDict
    /\ all_test_names = {}
    /\ all_automation_cases = {}
    /\ TEST_RESULTS = EmptyDict
    /\ TESTAUTOMATION_RESULTS = EmptyDict
    /\ success = TRUE
    /\ test_result = "unbound"
    /\ procs = << >>
    /\ rpc = "idle"
    /\ elapsed = 0
    /\ timeout = 0
    /\ returncode = None
    /\ exited_at = None
    /\ table_auto = NoTable
    /\ table_tests = NoTable
    /\ exit_code = None
    /\ exception = "none"
    /\ TAG_PREF = EmptyDict
    /\ ps = "none"
    /\ steps = << >>
    /\ child_environ = EmptyDict
    /\ in_group = FALSE
    /\ unclosed = 0

Init ==
    \/ InitFrom(EngineArgs, Versions, Trees, DutVersions, DutTrees)
    \/ InitFrom(PipelineArgs, PipelineVersions, PipelineTrees, PipelineVersions,
                PipelineTrees)

\* An exception nothing catches leaves main; lines 245-246 then end the
\* interpreter with exit status 1.
Crash_Swallowed(what) ==
    /\ pc' = pc
    /\ exception' = what
    /\ exit_code' = 1

Crash(what) ==
    /\ pc' = "crashed"
    /\ exception' = what
    /\ exit_code' = 1

\* ---------------------------------------------------------- section printer

\* GitHubSectionPrinter.group, line 61: the assertion fails when a group is open.
\* SectionPrinter.group (lines 21-25) has no state and asserts nothing.
AssertFails == args.github /\ in_group

\* GitHubSectionPrinter.group, line 64, after the body of the "with" returned.
GroupClosed(ig) == FALSE

\* Lines 60-62: "::group::" is printed, the assertion passes, in_group = True;
\* the body of the "with" is still running when the action ends, or raised.
GroupEnter ==
    IF args.github
    THEN in_group' = TRUE /\ unclosed' = unclosed + 1
    ELSE UNCHANGED printerVars

\* Lines 64-65: the body returned; in_group = False, "::endgroup::" is printed.
GroupExit ==
    IF args.github
    THEN in_group' = GroupClosed(in_group) /\ unclosed' = unclosed - 1
    ELSE UNCHANGED printerVars

\* Lines 60-65 around a body that returns within the same action.
GroupAround ==
    IF args.github
    THEN in_group' = GroupClosed(TRUE) /\ unclosed' = unclosed
    ELSE UNCHANGED printerVars

\* Lines 60-61: "::group::" is printed, then the assertion raises.
AssertionError ==
    /\ Crash("AssertionError")
    /\ unclosed' = unclosed + 1
    /\ UNCHANGED <<args, fs, ti, j, pipelineVars, TEST_RESULTS,
                   TESTAUTOMATION_RESULTS, success, test_result, runnerVars,
                   table_auto, table_tests, in_group>>

\* ---------------------------------------------------------------- pipeline

\* tag_src / "prefix", lines 118, 123
PrefixOf(tag) == cwd \o <<ToString(tag), "prefix">>

\* The steps that spawn git or cmake with subprocess.check_call inside a group.
ExternalSteps == {"clone", "configure", "build", "install"}

\* Lines 125-150: the step that follows `step` within one iteration.
AfterStep(step, a) ==
    CASE step = "paths" -> IF a.clone THEN "clone" ELSE "version"
      [] step = "clone" -> "version"
      [] step = "version" -> IF a.build THEN "configure" ELSE "discover"
      [] step = "configure" -> "build"
      [] step = "build" -> "install"
      [] step = "install" -> "discover"

\* One entry of the log of pipeline steps.
Step(tag, step, ok) == [tag |-> tag, step |-> step, ok |-> ok]

\* main, lines 98-114: parse_args, --filter-testautomation implies
\* --testautomation, the section printer, empty dictionaries, the tag list.
ParseArgs ==
    /\ pc = "start"
    /\ args' = [args EXCEPT !.testautomation =
                    IF args.filter_testautomation # << >> THEN TRUE ELSE @]
    /\ pc' = "pipeline"
    /\ ti' = 1
    /\ ps' = "paths"
    /\ UNCHANGED <<fs, j, TAG_VERSION, TAG_TESTS, TAG_AUTOMATION_CASES,
                   all_test_names, all_automation_cases, TAG_PREF, steps,
                   child_environ, TEST_RESULTS, TESTAUTOMATION_RESULTS,
                   success, test_result, runnerVars, reportVars, printerVars>>

\* main, lines 117-124: "for tag in tags" takes the next tag; its source,
\* build and prefix directories are named.
PipelinePaths ==
    /\ pc = "pipeline"
    /\ ti <= Len(tags)
    /\ ps = "paths"
    /\ TAG_PREF' = DictPut(TAG_PREF, tags[ti], PrefixOf(tags[ti]))
    /\ ps' = AfterStep(ps, args)
    /\ UNCHANGED <<args, fs, pc, ti, j, TAG_VERSION, TAG_TESTS,
                   TAG_AUTOMATION_CASES, all_test_names, all_automation_cases,
                   steps, child_environ, TEST_RESULTS, TESTAUTOMATION_RESULTS,
                   success, test_result, runnerVars, reportVars, printerVars>>

\* main, lines 125-129 (clone) and 138-148 (configure, build, install): the
\* group is entered, check_call returns, the group is left.
PipelineExternal ==
    /\ pc = "pipeline"
    /\ ti <= Len(tags)
    /\ ps \in ExternalSteps
    /\ IF AssertFails
       THEN AssertionError
       ELSE /\ GroupAround
            /\ steps' = Append(steps, Step(tags[ti], ps, TRUE))
            /\ ps' = AfterStep(ps, args)
            /\ UNCHANGED <<args, fs, pc, ti, j, TAG_VERSION, TAG_TESTS,
                           TAG_AUTOMATION_CASES, all_test_names,
                           all_automation_cases, TAG_PREF, child_environ,
                           TEST_RESULTS, TESTAUTOMATION_RESULTS, success,
                           test_result, runnerVars, reportVars>>

\* The same steps when git or cmake exits with a non-zero status: check_call
\* raises CalledProcessError inside the group.
PipelineExternalFails ==
    /\ pc = "pipeline"
    /\ ti <= Len(tags)
    /\ ps \in ExternalSteps
    /\ IF AssertFails
       THEN AssertionError
       ELSE /\ GroupEnter
            /\ steps' = Append(steps, Step(tags[ti], ps, FALSE))
            /\ Crash("CalledProcessError")
            /\ UNCHANGED <<args, fs, ti, j, TAG_VERSION, TAG_TESTS,
                           TAG_AUTOMATION_CASES, all_test_names,
                           all_automation_cases, TAG_PREF, ps, child_environ,
                           TEST_RESULTS, TESTAUTOMATION_RESULTS, success,
                           test_result, runnerVars, table_auto, table_tests>>

\* main, lines 131-136: the three version constants are read from the header.
PipelineVersion ==
    /\ pc = "pipeline"
    /\ ti <= Len(tags)
    /\ ps = "version"
    /\ fs[tags[ti]].version # NoVersion
    /\ TAG_VERSION' = DictPut(TAG_VERSION, tags[ti], fs[tags[ti]].version)
    /\ steps' = Append(steps, Step(tags[ti], ps, TRUE))
    /\ ps' = AfterStep(ps, args)
    /\ UNCHANGED <<args, fs, pc, ti, j, TAG_TESTS, TAG_AUTOMATION_CASES,
                   all_test_names, all_automation_cases, TAG_PREF,
                   child_environ, TEST_RESULTS, TESTAUTOMATION_RESULTS,
                   success, test_result, runnerVars, reportVars, printerVars>>

\* main, lines 132-134: a constant is missing, next() of the empty iterator
\* raises StopIteration.
PipelineVersionFails ==
    /\ pc = "pipeline"
    /\ ti <= Len(tags)
    /\ ps = "version"
    /\ fs[tags[ti]].version = NoVersion
    /\ steps' = Append(steps, Step(tags[ti], ps, FALSE))
    /\ Crash("StopIteration")
    /\ UNCHANGED <<args, fs, ti, j, TAG_VERSION, TAG_TESTS,
                   TAG_AUTOMATION_CASES, all_test_names, all_automation_cases,
                   TAG_PREF, ps, child_environ, TEST_RESULTS,
                   TESTAUTOMATION_RESULTS, success, test_result, runnerVars,
                   table_auto, table_tests, printerVars>>

\* main, lines 150-161: the installed tests and the (filtered) automation
\* cases of the tag are recorded; the iteration ends.
PipelineDiscover ==
    /\ pc = "pipeline"
    /\ ti <= Len(tags)
    /\ ps = "discover"
    /\ LET tag == tags[ti]
           tag_tests == get_unit_tests(tag, fs[tag].tests)
           found == fs[tag].cases
           automation_cases ==
               IF args.filter_testautomation # << >>
               THEN FilterCases(found, args.filter_testautomation)
               ELSE found
       IN /\ TAG_TESTS' = DictPut(TAG_TESTS, tag, tag_tests)
          /\ all_test_names' =
                 all_test_names \cup {tag_tests[i].name : i \in DOMAIN tag_tests}
          /\ all_automation_cases' = all_automation_cases \cup Range(automation_cases)
          /\ TAG_AUTOMATION_CASES' = DictPut(TAG_AUTOMATION_CASES, tag, automation_cases)
    /\ steps' = Append(steps, Step(tags[ti], ps, TRUE))
    /\ ti' = ti + 1
    /\ ps' = "paths"
    /\ UNCHANGED <<args, fs, pc, j, TAG_VERSION, TAG_PREF, child_environ,
                   TEST_RESULTS, TESTAUTOMATION_RESULTS, success, test_result,
                   runnerVars, reportVars, printerVars>>

\* Lines 163-166: the environment handed to every child.
ChildEnviron_PathAppended(environ, pref) ==
    LET lib == <<pref \o <<"lib">>>>
        e1 == DictPut(environ, "DYLD_LIBRARY_PATH", lib)
        e2 == DictPut(e1, "LD_LIBRARY_PATH", lib)
    IN DictPut(e2, "PATH", e2["PATH"] \o <<pref \o <<"bin">>>>)

ChildEnviron(environ, pref) ==
    LET lib == <<pref \o <<"lib">>>>
        e1 == DictPut(environ, "DYLD_LIBRARY_PATH", lib)
        e2 == DictPut(e1, "LD_LIBRARY_PATH", lib)
    IN DictPut(e2, "PATH", <<pref \o <<"bin">>>> \o e2["PATH"])

\* main, lines 163-174: child_environ, empty result matrices, success = True.
BeginCompare ==
    /\ pc = "pipeline"
    /\ ti > Len(tags)
    /\ TEST_RESULTS' = EmptyDict
    /\ TESTAUTOMATION_RESULTS' = EmptyDict
    /\ success' = TRUE
    /\ child_environ' = ChildEnviron(os_environ, TAG_PREF[Dut])
    /\ pc' = "tag"
    /\ ti' = 1
    /\ UNCHANGED <<args, fs, j, TAG_VERSION, TAG_TESTS, TAG_AUTOMATION_CASES,
                   all_test_names, all_automation_cases, TAG_PREF, ps, steps,
                   test_result, runnerVars, reportVars, printerVars>>

\* ------------------------------------------------------- comparison engine

CurTag == other_tags[ti]

\* subprocess.Popen(cmd, env=env); start = time.time()
Spawn(cmd, timeout_, env) ==
    /\ procs' = Append(procs, [cmd |-> cmd, state |-> "running", env |-> env])
    /\ rpc' = "loop"
    /\ elapsed' = 0
    /\ timeout' = timeout_
    /\ returncode' = None
    /\ exited_at' = None

\* main, line 175: "for other_tag in args.other_tags" is exhausted.
TagsDone ==
    /\ pc = "tag"
    /\ ti > Len(other_tags)
    /\ pc' = "report_auto"
    /\ UNCHANGED <<args, fs, ti, j, pipelineVars, TEST_RESULTS,
                   TESTAUTOMATION_RESULTS, success, test_result, runnerVars,
                   reportVars, printerVars>>

\* main, lines 176-179: the version of other_tag is not <= the DUT's.
TagVersionError ==
    /\ pc = "tag"
    /\ ti <= Len(other_tags)
    /\ ~TupleLE(TAG_VERSION[CurTag], TAG_VERSION[Dut])
    /\ success' = FALSE
    /\ ti' = ti + 1
    /\ UNCHANGED <<args, fs, pc, j, pipelineVars, TEST_RESULTS,
                   TESTAUTOMATION_RESULTS, test_result, runnerVars, reportVars, printerVars>>

\* main, lines 176, 181-184: the tag is eligible; its result row is created.
TagBegin ==
    /\ pc = "tag"
    /\ ti <= Len(other_tags)
    /\ TupleLE(TAG_VERSION[CurTag], TAG_VERSION[Dut])
    /\ TEST_RESULTS' = DictPut(TEST_RESULTS, CurTag, EmptyDict)
    /\ pc' = "unit"
    /\ j' = 1
    /\ UNCHANGED <<args, fs, ti, pipelineVars, TESTAUTOMATION_RESULTS, success,
                   test_result, runnerVars, reportVars, printerVars>>

\* Lines 185 and 202: the "for" loops have no break; whatever the result of
\* item j_ of n, the loop goes on with item j_ + 1.
LoopNext_BreakOnFailure(j_, n, result) ==
    IF result \in {FAILED, TIMEOUT} THEN n + 1 ELSE j_ + 1

LoopNext(j_, n, result) == j_ + 1

\* main, lines 185-189, 193-194: a unit test the filter excludes; the group is
\* entered and left around it.
UnitSkip ==
    /\ pc = "unit"
    /\ j <= Len(TAG_TESTS[CurTag])
    /\ FilteredOut(args.filter_tests, TAG_TESTS[CurTag][j].name)
    /\ IF AssertFails
       THEN AssertionError
       ELSE /\ GroupAround
            /\ LET test_name == TAG_TESTS[CurTag][j].name
               IN /\ test_result' = SKIP
                  /\ TEST_RESULTS' =
                         [TEST_RESULTS EXCEPT ![CurTag] = DictPut(@, test_name, SKIP)]
                  /\ success' = Accumulate(success, SKIP)
            /\ j' = LoopNext(j, Len(TAG_TESTS[CurTag]), SKIP)
            /\ UNCHANGED <<args, fs, pc, ti, pipelineVars, TESTAUTOMATION_RESULTS,
                           runnerVars, reportVars>>

\* main, lines 185-187, 191 with run_process_with_timeout, lines 37-39; the
\* group stays open while the test runs.
UnitLaunch ==
    /\ pc = "unit"
    /\ j <= Len(TAG_TESTS[CurTag])
    /\ ~FilteredOut(args.filter_tests, TAG_TESTS[CurTag][j].name)
    /\ IF AssertFails
       THEN AssertionError
       ELSE /\ GroupEnter
            /\ Spawn(TAG_TESTS[CurTag][j].cmd, MAX_TEST_TIME, child_environ)
            /\ pc' = "unit_run"
            /\ UNCHANGED <<args, fs, ti, j, pipelineVars, TEST_RESULTS,
                           TESTAUTOMATION_RESULTS, success, test_result,
                           reportVars>>

\* run_process_with_timeout, line 40: child.poll() is not None, the loop ends.
RunnerLoopExit ==
    /\ rpc = "loop"
    /\ procs[Len(procs)].state # "running"
    /\ rpc' = "final"
    /\ UNCHANGED <<args, fs, pc, ti, j, pipelineVars, TEST_RESULTS,
                   TESTAUTOMATION_RESULTS, success, test_result, procs, elapsed,
                   timeout, returncode, exited_at, reportVars, printerVars>>

\* run_process_with_timeout, lines 40-42: still running past the deadline, break.
RunnerBreak ==
    /\ rpc = "loop"
    /\ procs[Len(procs)].state = "running"
    /\ DeadlinePassed(elapsed, timeout)
    /\ rpc' = "final"
    /\ UNCHANGED <<args, fs, pc, ti, j, pipelineVars, TEST_RESULTS,
                   TESTAUTOMATION_RESULTS, success, test_result, procs, elapsed,
                   timeout, returncode, exited_at, reportVars, printerVars>>

\* run_process_with_timeout, lines 40-43: still running, deadline not passed,
\* time.sleep(0.01) lets the clock advance.
RunnerSleep ==
    /\ rpc = "loop"
    /\ procs[Len(procs)].state = "running"
    /\ ~DeadlinePassed(elapsed, timeout)
    /\ \E t \in TimePoints : t > elapsed /\ elapsed' = t
    /\ UNCHANGED <<args, fs, pc, ti, j, pipelineVars, TEST_RESULTS,
                   TESTAUTOMATION_RESULTS, success, test_result, procs, rpc,
                   timeout, returncode, exited_at, reportVars, printerVars>>

\* The environment: a running child exits on its own with some status.
ChildExit ==
    /\ \E p \in DOMAIN procs, rc \in ExitStatuses :
          /\ procs[p].state = "running"
          /\ procs' = [procs EXCEPT ![p].state = "exited"]
          /\ IF p = Len(procs) /\ rpc # "idle"
             THEN returncode' = rc /\ exited_at' = elapsed
             ELSE UNCHANGED <<returncode, exited_at>>
    /\ UNCHANGED <<args, fs, pc, ti, j, pipelineVars, TEST_RESULTS,
                   TESTAUTOMATION_RESULTS, success, test_result, rpc, elapsed,
                   timeout, reportVars, printerVars>>

\* run_process_with_timeout, lines 44-50: the value returned, given the child.
RunnerResult == Classify(procs[Len(procs)].state, returncode)

\* run_process_with_timeout, lines 44-46 and return: the child after the call.
RunnerReturn ==
    /\ procs' = [procs EXCEPT ![Len(procs)].state = Kill(@)]
    /\ rpc' = "idle"
    /\ elapsed' = 0
    /\ timeout' = 0
    /\ returncode' = None
    /\ exited_at' = None

\* run_process_with_timeout, lines 44-50, then main, lines 191-194.
UnitRecord ==
    /\ pc = "unit_run"
    /\ rpc = "final"
    /\ RunnerReturn
    /\ LET test_name == TAG_TESTS[CurTag][j].name
       IN /\ test_result' = RunnerResult
          /\ TEST_RESULTS' = [TEST_RESULTS EXCEPT ![CurTag] = DictPut(@, test_name, RunnerResult)]
          /\ success' = Accumulate(success, RunnerResult)
    /\ GroupExit
    /\ pc' = "unit"
    /\ j' = LoopNext(j, Len(TAG_TESTS[CurTag]), RunnerResult)
    /\ UNCHANGED <<args, fs, ti, pipelineVars, TESTAUTOMATION_RESULTS, reportVars>>

\* main, lines 196-200: the unit tests of the tag are done; its automation row
\* is created; no automation run for this tag.
AutoNone ==
    /\ pc = "unit"
    /\ j > Len(TAG_TESTS[CurTag])
    /\ ~(args.testautomation /\ HasTest(TAG_TESTS[CurTag], testautomation))
    /\ TESTAUTOMATION_RESULTS' = DictPut(TESTAUTOMATION_RESULTS, CurTag, EmptyDict)
    /\ pc' = "tag"
    /\ ti' = ti + 1
    /\ UNCHANGED <<args, fs, j, pipelineVars, TEST_RESULTS, success, test_result,
                   runnerVars, reportVars, printerVars>>

\* main, lines 196-201: automation mode and the tag ships "testautomation".
AutoBegin ==
    /\ pc = "unit"
    /\ j > Len(TAG_TESTS[CurTag])
    /\ args.testautomation
    /\ HasTest(TAG_TESTS[CurTag], testautomation)
    /\ TESTAUTOMATION_RESULTS' = DictPut(TESTAUTOMATION_RESULTS, CurTag, EmptyDict)
    /\ pc' = "case"
    /\ j' = 1
    /\ UNCHANGED <<args, fs, ti, pipelineVars, TEST_RESULTS, success, test_result,
                   runnerVars, reportVars, printerVars>>

\* main, lines 202-211 up to the call: the group is entered; the next
\* automation case is recorded as SKIP when the filter excludes it (and the
\* group is left), and launched otherwise (run_process_with_timeout, lines
\* 37-39, the group staying open).
CaseNext ==
    /\ pc = "case"
    /\ j <= Len(TAG_AUTOMATION_CASES[CurTag])
    /\ IF AssertFails
       THEN AssertionError
       ELSE /\ LET testautomation_case == TAG_AUTOMATION_CASES[CurTag][j]
                   testautomation_cmd == CmdOf(TAG_TESTS[CurTag], testautomation)
               IN IF FilteredOut(args.filter_testautomation, testautomation_case)
                  THEN /\ GroupAround
                       /\ test_result' = SKIP
                       /\ TESTAUTOMATION_RESULTS' =
                              [TESTAUTOMATION_RESULTS EXCEPT
                                  ![CurTag] = DictPut(@, testautomation_case, SKIP)]
                       /\ j' = LoopNext(j, Len(TAG_AUTOMATION_CASES[CurTag]), SKIP)
                       /\ UNCHANGED <<pc, runnerVars>>
                  ELSE /\ GroupEnter
                       /\ Spawn(testautomation_cmd \o <<"--filter", testautomation_case>>,
                                MAX_TEST_TIME, child_environ)
                       /\ pc' = "case_run"
                       /\ UNCHANGED <<j, test_result, TESTAUTOMATION_RESULTS>>
            /\ UNCHANGED <<args, fs, ti, pipelineVars, TEST_RESULTS, success,
                           reportVars>>

\* A case loop that folds every case's result into the flag as it goes.
CaseRecord_Accumulating ==
    /\ pc = "case_run"
    /\ rpc = "final"
    /\ RunnerReturn
    /\ LET testautomation_case == TAG_AUTOMATION_CASES[CurTag][j]
       IN /\ test_result' = RunnerResult
          /\ TESTAUTOMATION_RESULTS' =
                 [TESTAUTOMATION_RESULTS EXCEPT ![CurTag] = DictPut(@, testautomation_case, RunnerResult)]
    /\ success' = Accumulate(success, RunnerResult)
    /\ GroupExit
    /\ pc' = "case"
    /\ j' = LoopNext(j, Len(TAG_AUTOMATION_CASES[CurTag]), RunnerResult)
    /\ UNCHANGED <<args, fs, ti, pipelineVars, TEST_RESULTS, reportVars>>

\* run_process_with_timeout, lines 44-50, then main, lines 209-211.
CaseRecord ==
    /\ pc = "case_run"
    /\ rpc = "final"
    /\ RunnerReturn
    /\ LET testautomation_case == TAG_AUTOMATION_CASES[CurTag][j]
       IN /\ test_result' = RunnerResult
          /\ TESTAUTOMATION_RESULTS' =
                 [TESTAUTOMATION_RESULTS EXCEPT ![CurTag] = DictPut(@, testautomation_case, RunnerResult)]
    /\ GroupExit
    /\ pc' = "case"
    /\ j' = LoopNext(j, Len(TAG_AUTOMATION_CASES[CurTag]), RunnerResult)
    /\ UNCHANGED <<args, fs, ti, pipelineVars, TEST_RESULTS, success, reportVars>>

\* main, line 212: after the case loop, test_result is whatever was assigned last.
CaseAccumulate ==
    /\ pc = "case"
    /\ j > Len(TAG_AUTOMATION_CASES[CurTag])
    /\ success' = Accumulate(success, test_result)
    /\ pc' = "tag"
    /\ ti' = ti + 1
    /\ UNCHANGED <<args, fs, j, pipelineVars, TEST_RESULTS,
                   TESTAUTOMATION_RESULTS, test_result, runnerVars, reportVars, printerVars>>

\* ------------------------------------------------------------ report printer

\* The cells of one table: a row per name, a column per other tag.
\* RESULTS[other_tag].get(test_name, TestResult.NA)
TableOf(names, RESULTS) ==
    [cell \in names \X Range(other_tags) |-> DictGet(RESULTS[cell[2]], cell[1], NA)]

\* RESULTS[other_tag] raises KeyError for some column while a row is formatted.
RowKeyError(names, RESULTS) ==
    names # {} /\ \E t \in Range(other_tags) : t \notin DOMAIN RESULTS

\* main, line 214: automation mode is off, no testautomation table.
ReportAutoOff ==
    /\ pc = "report_auto"
    /\ ~args.testautomation
    /\ pc' = "report_tests"
    /\ UNCHANGED <<args, fs, ti, j, pipelineVars, TEST_RESULTS,
                   TESTAUTOMATION_RESULTS, success, test_result, runnerVars,
                   reportVars, printerVars>>

\* main, lines 214-225: the testautomation table.
ReportAuto ==
    /\ pc = "report_auto"
    /\ args.testautomation
    /\ IF all_automation_cases = {}
       THEN Crash("ValueError") /\ UNCHANGED table_auto
       ELSE IF RowKeyError(all_automation_cases, TESTAUTOMATION_RESULTS)
       THEN Crash("KeyError") /\ UNCHANGED table_auto
       ELSE /\ table_auto' = TableOf(all_automation_cases, TESTAUTOMATION_RESULTS)
            /\ pc' = "report_tests"
            /\ UNCHANGED <<exit_code, exception>>
    /\ UNCHANGED <<args, fs, ti, j, pipelineVars, TEST_RESULTS,
                   TESTAUTOMATION_RESULTS, success, test_result, runnerVars,
                   table_tests, printerVars>>

\* main, lines 227-240: the unit-test table, or "No tests".
ReportTests ==
    /\ pc = "report_tests"
    /\ IF RowKeyError(all_test_names, TEST_RESULTS)
       THEN Crash("KeyError") /\ UNCHANGED table_tests
       ELSE /\ table_tests' =
                   IF all_test_names # {} THEN TableOf(all_test_names, TEST_RESULTS)
                   ELSE table_tests
            /\ pc' = "return"
            /\ UNCHANGED <<exit_code, exception>>
    /\ UNCHANGED <<args, fs, ti, j, pipelineVars, TEST_RESULTS,
                   TESTAUTOMATION_RESULTS, success, test_result, runnerVars,
                   table_auto, printerVars>>

\* main, line 242, and line 246: raise SystemExit(main()).
Return ==
    /\ pc = "return"
    /\ exit_code' = IF success THEN 0 ELSE 1
    /\ pc' = "done"
    /\ UNCHANGED <<args, fs, ti, j, pipelineVars, TEST_RESULTS,
                   TESTAUTOMATION_RESULTS, success, test_result, runnerVars,
                   table_auto, table_tests, exception, printerVars>>

\* ------------------------------------------------------------ specification

Next ==
    \/ ParseArgs
    \/ PipelinePaths
    \/ PipelineExternal
    \/ PipelineExternalFails
    \/ PipelineVersion
    \/ PipelineVersionFails
    \/ PipelineDiscover
    \/ BeginCompare
    \/ TagsDone
    \/ TagVersionError
    \/ TagBegin
    \/ UnitSkip
    \/ UnitLaunch
    \/ RunnerLoopExit
    \/ RunnerBreak
    \/ RunnerSleep
    \/ ChildExit
    \/ UnitRecord
    \/ AutoNone
    \/ AutoBegin
    \/ CaseNext
    \/ CaseRecord
    \/ CaseAccumulate
    \/ ReportAutoOff
    \/ ReportAuto
    \/ ReportTests
    \/ Return

Spec == Init /\ [][Next]_vars

\* Every step but ChildExit is a step of the script's own single thread, which
\* keeps executing: time.sleep returns and the clock advances. Whether and
\* when a child exits on its own is left to the child.
Script ==
    \/ ParseArgs
    \/ PipelinePaths
    \/ PipelineExternal
    \/ PipelineExternalFails
    \/ PipelineVersion
    \/ PipelineVersionFails
    \/ PipelineDiscover
    \/ BeginCompare
    \/ TagsDone
    \/ TagVersionError
    \/ TagBegin
    \/ UnitSkip
    \/ UnitLaunch
    \/ RunnerLoopExit
    \/ RunnerBreak
    \/ RunnerSleep
    \/ UnitRecord
    \/ AutoNone
    \/ AutoBegin
    \/ CaseNext
    \/ CaseRecord
    \/ CaseAccumulate
    \/ ReportAutoOff
    \/ ReportAuto
    \/ ReportTests
    \/ Return

\* The runs of the fair specification: any of --clone, --build, --github, any
\* unit-test filter, versions below, equal to and above the DUT's or missing.
InitLive ==
    InitFrom(PipelineArgs, PipelineVersions \cup {<<1, 0, 1>>}, PipelineTrees,
             DutVersions, PipelineTrees)

LiveSpec == InitLive /\ [][Next]_vars /\ WF_vars(Script)

\* ---------------------------------------------------- vocabulary of the claims

\* (major, minor, micro) of a is lexicographically <= that of b.
LexLE(a, b) ==
    \/ a[1] < b[1]
    \/ a[1] = b[1] /\ a[2] < b[2]
    \/ a[1] = b[1] /\ a[2] = b[2] /\ a[3] <= b[3]

\* Both headers carry the version constants, and the version of tag t is <=
\* the version of the DUT tag.
Eligible(t) ==
    /\ fs[t].version # NoVersion
    /\ fs[Dut].version # NoVersion
    /\ LexLE(fs[t].version, fs[Dut].version)

\* The string s contains the string f.
HasSub(s, f) == \E a \in 0..Len(s), b \in 0..Len(s) : SubSeq(s, a + 1, b) = f

\* A filter is configured and the name does not contain it.
Excluded(f, name) == f # << >> /\ ~HasSub(name, f)

\* The unit test `name` of tag t was handed to the Process Runner.
UnitLaunched(t, name) ==
    \E p \in DOMAIN procs : procs[p].cmd = <<[tag |-> t, exe |-> name]>>

\* The automation case c of tag t was handed to the Process Runner.
CaseLaunched(t, c) ==
    \E p \in DOMAIN procs :
        procs[p].cmd = <<[tag |-> t, exe |-> testautomation], "--filter", c>>

\* The tag whose test binary the child p runs.
TagOfChild(p) == procs[p].cmd[1].tag

\* The run ended with an exception raised while a table was printed.
ReportCrashed == pc = "crashed" /\ exception \in {"KeyError", "ValueError"}

\* The comparison engine has gone through every other tag.
CompareDone ==
    pc \in {"report_auto", "report_tests", "return", "done"} \/ ReportCrashed

\* The comparison of the other tag at position i has been decided.
TagDecided(i) ==
    \/ CompareDone
    \/ pc \in {"tag", "unit", "unit_run", "case", "case_run"} /\ ti > i

Executed == {SUCCESS, FAILED, TIMEOUT}

\* Some recorded unit-test result is FAILED or TIMEOUT.
UnitFailureRecorded ==
    \E t \in DOMAIN TEST_RESULTS : \E n \in DOMAIN TEST_RESULTS[t] :
        TEST_RESULTS[t][n] \in {FAILED, TIMEOUT}

\* Some recorded automation-case result is FAILED or TIMEOUT.
CaseFailureRecorded ==
    \E t \in DOMAIN TESTAUTOMATION_RESULTS :
        \E c \in DOMAIN TESTAUTOMATION_RESULTS[t] :
            TESTAUTOMATION_RESULTS[t][c] \in {FAILED, TIMEOUT}

\* --------------------------------------------------------------------- claims

\* C1: main returns 0 exactly when every executed unit test and automation
\* case resulted in SUCCESS (filtered tests do not count) and every other
\* tag's version is <= the DUT's; it returns 1 otherwise.
C1_ExitCodeIffAllExecutedSucceeded ==
    pc = "done" =>
        (exit_code = 0 <=>
            /\ ~UnitFailureRecorded
            /\ ~CaseFailureRecorded
            /\ \A t \in Range(other_tags) : Eligible(t))

\* C2: recording a SKIP (or n/a) result never turns the accumulated success
\* flag from true to false.
C2_SkipKeepsSuccess ==
    [][(success /\ TEST_RESULTS' # TEST_RESULTS /\ test_result' \in {SKIP, NA})
          => success']_vars

\* C3: while a unit test is recorded as FAILED or TIMEOUT the success flag is
\* false, a false flag is never set back to true, and the run then ends with
\* exit code 1.
C3_FailureIsSticky ==
    /\ [](UnitFailureRecorded => ~success)
    /\ [][~success => ~success']_vars
    /\ []((pc \in {"done", "crashed"} /\ UnitFailureRecorded) => exit_code = 1)

C3_Witness ==
    /\ pc = "done"
    /\ exit_code = 1
    /\ \E t \in DOMAIN TEST_RESULTS :
          /\ DOMAIN TEST_RESULTS[t] = {testver, testautomation}
          /\ TEST_RESULTS[t][testver] = TIMEOUT
          /\ TEST_RESULTS[t][testautomation] = SUCCESS

\* C4: when some other tag's version exceeds the DUT's, the run still
\* completes the report: the violating tag keeps its column and every row of
\* the tables shows n/a under it.
C4_ViolatingTagReportedNA ==
    (CompareDone /\ pc \in {"done", "crashed"}
        /\ \E t \in Range(other_tags) : ~Eligible(t)) =>
        /\ pc = "done"
        /\ \A t \in Range(other_tags) : ~Eligible(t) =>
              /\ \A n \in all_test_names : table_tests[<<n, t>>] = NA
              /\ args.testautomation =>
                    \A c \in all_automation_cases : table_auto[<<c, t>>] = NA

\* C5: no child is ever launched for a tag whose version is not <= the DUT's;
\* once decided, a violating tag has made the success flag false and has no
\* result row; and when the comparison is over every eligible tag, whatever
\* precedes it, has a result for each of its unit tests, the tests the filter
\* keeps having been launched.
C5_OnlyEligibleTagsRun ==
    /\ \A p \in DOMAIN procs : Eligible(TagOfChild(p))
    /\ \A i \in DOMAIN other_tags :
          (TagDecided(i) /\ ~Eligible(other_tags[i])) =>
              /\ ~success
              /\ other_tags[i] \notin DOMAIN TEST_RESULTS
              /\ other_tags[i] \notin DOMAIN TESTAUTOMATION_RESULTS
    /\ CompareDone =>
          \A t \in Range(other_tags) : Eligible(t) =>
              /\ t \in DOMAIN TEST_RESULTS
              /\ \A n \in Range(fs[t].tests) :
                    /\ n \in DOMAIN TEST_RESULTS[t]
                    /\ ~Excluded(args.filter_tests, n) => UnitLaunched(t, n)

\* A violating first tag, and a child of the second tag launched after it.
C5_Witness ==
    /\ ~Eligible(other_tags[1])
    /\ Eligible(other_tags[2])
    /\ ~success
    /\ \E p \in DOMAIN procs : TagOfChild(p) = other_tags[2]
    /\ CompareDone

\* The call of run_process_with_timeout in progress returns in this step.
RunnerReturns == rpc = "final" /\ rpc' = "idle"

\* C6 as stated: the value returned is SUCCESS or FAILED, by the exit status,
\* for a child that exited within the timeout, and TIMEOUT for a child still
\* running once the elapsed time exceeds the timeout.
C6_ClassifiesByDeadline ==
    [][RunnerReturns =>
          test_result' =
              IF exited_at # None /\ exited_at <= timeout
              THEN (IF returncode = 0 THEN SUCCESS ELSE FAILED)
              ELSE TIMEOUT]_vars

\* C6, amended: the value returned is exactly one of SUCCESS, FAILED and
\* TIMEOUT, never SKIP or n/a: TIMEOUT exactly when the child is still running
\* at the runner's last poll, which happens only after the elapsed time has
\* exceeded the timeout; otherwise SUCCESS for exit status 0 and FAILED for
\* any other status, so a child that exits within the timeout is never
\* reported as TIMEOUT.
C6_ClassifiesByLastPoll ==
    [][RunnerReturns =>
          LET child == procs[Len(procs)]
          IN /\ test_result' \in {SUCCESS, FAILED, TIMEOUT}
             /\ test_result' = TIMEOUT <=> child.state = "running"
             /\ test_result' = SUCCESS <=> (child.state = "exited" /\ returncode = 0)
             /\ test_result' = FAILED <=> (child.state = "exited" /\ returncode # 0)
             /\ child.state = "running" => elapsed > timeout
             /\ (exited_at # None /\ exited_at <= timeout) => test_result' # TIMEOUT]_vars

\* A child that exited with status 0 after the deadline, about to be classified.
C6_Witness ==
    /\ rpc = "final"
    /\ exited_at # None
    /\ exited_at > timeout
    /\ returncode = 0

\* C7: at most one child is running at any moment, a running child is the one
\* of the call in progress, and after a call returned TIMEOUT its child has
\* been killed.
C7_NoChildOutlivesCall ==
    /\ Cardinality({p \in DOMAIN procs : procs[p].state = "running"}) <= 1
    /\ \A p \in DOMAIN procs :
          procs[p].state = "running" => (p = Len(procs) /\ rpc # "idle")
    /\ (rpc = "idle" /\ test_result = TIMEOUT) => procs[Len(procs)].state = "killed"

\* A second child runs after the first one was killed on timeout.
C7_Witness ==
    /\ Len(procs) >= 2
    /\ procs[1].state = "killed"
    /\ procs[Len(procs)].state = "running"
    /\ test_result = TIMEOUT

\* C8: the timeout of every call of the Process Runner, in the seconds of the
\* runner's clock, is 60.
C8_SixtySecondTimeout == rpc # "idle" => timeout = 60

\* C9: with a unit-test filter configured, a recorded unit test whose name
\* does not contain it is SKIP and was never launched, any other recorded unit
\* test was launched and has the runner's result, no child runs an excluded
\* test, and when the comparison is over every unit test of every eligible
\* tag is recorded.
C9_FilterTests ==
    /\ \A t \in DOMAIN TEST_RESULTS : \A n \in DOMAIN TEST_RESULTS[t] :
          IF Excluded(args.filter_tests, n)
          THEN TEST_RESULTS[t][n] = SKIP /\ ~UnitLaunched(t, n)
          ELSE TEST_RESULTS[t][n] \in Executed /\ UnitLaunched(t, n)
    /\ \A p \in DOMAIN procs :
          Len(procs[p].cmd) = 1 => ~Excluded(args.filter_tests, procs[p].cmd[1].exe)
    /\ CompareDone =>
          \A t \in Range(other_tags) : Eligible(t) =>
              /\ t \in DOMAIN TEST_RESULTS
              /\ DOMAIN TEST_RESULTS[t] = Range(fs[t].tests)

\* A finished run in which the filter kept one test of a tag and skipped another.
C9_Witness ==
    /\ pc = "done"
    /\ args.filter_tests # << >>
    /\ \E t \in DOMAIN TEST_RESULTS :
          /\ DOMAIN TEST_RESULTS[t] = {testver, testautomation}
          /\ TEST_RESULTS[t][testver] \in Executed
          /\ TEST_RESULTS[t][testautomation] = SKIP

\* C10: with an automation-case filter configured, every automation case
\* discovered for an eligible tag that ships testautomation and whose name
\* does not contain the filter is recorded as SKIP in that tag's automation
\* results, and is never launched.
C10_FilteredCasesRecordedSkip ==
    (CompareDone /\ args.filter_testautomation # << >>) =>
        \A t \in Range(other_tags) :
            (Eligible(t) /\ testautomation \in Range(fs[t].tests)) =>
                \A c \in Range(fs[t].cases) :
                    Excluded(args.filter_testautomation, c) =>
                        /\ ~CaseLaunched(t, c)
                        /\ t \in DOMAIN TESTAUTOMATION_RESULTS
                        /\ c \in DOMAIN TESTAUTOMATION_RESULTS[t]
                        /\ TESTAUTOMATION_RESULTS[t][c] = SKIP

\* C11: a FAILED or TIMEOUT result never stops the tests after it: the
\* comparison launches no unit test twice and never changes a recorded result,
\* and when it is over every unit test discovered for every tag that passed
\* the version check has a recorded result, whatever came before it.
C11_FailureDoesNotStopLaterTests ==
    /\ [](\A t \in Range(other_tags) : \A i \in DOMAIN fs[t].tests :
             Cardinality({p \in DOMAIN procs :
                             procs[p].cmd = <<[tag |-> t, exe |-> fs[t].tests[i]]>>}) <= 1)
    /\ [](CompareDone =>
             \A t \in Range(other_tags) : Eligible(t) =>
                 /\ t \in DOMAIN TEST_RESULTS
                 /\ DOMAIN TEST_RESULTS[t] = Range(fs[t].tests)
                 /\ \A n \in DOMAIN TEST_RESULTS[t] :
                       TEST_RESULTS[t][n] \in Executed \cup {SKIP})
    /\ [][\A t \in DOMAIN TEST_RESULTS : \A n \in DOMAIN TEST_RESULTS[t] :
             /\ t \in DOMAIN TEST_RESULTS'
             /\ n \in DOMAIN TEST_RESULTS'[t]
             /\ TEST_RESULTS'[t][n] = TEST_RESULTS[t][n]]_vars

\* A finished run in which the first test of the first tag FAILED, the test
\* after it was still run, and the second tag was still compared.
C11_Witness ==
    /\ pc = "done"
    /\ other_tags[1] \in DOMAIN TEST_RESULTS
    /\ other_tags[2] \in DOMAIN TEST_RESULTS
    /\ DOMAIN TEST_RESULTS[other_tags[1]] = {testver, testautomation}
    /\ TEST_RESULTS[other_tags[1]][testver] = FAILED
    /\ TEST_RESULTS[other_tags[1]][testautomation] \in Executed
    /\ \E n \in DOMAIN TEST_RESULTS[other_tags[2]] :
          TEST_RESULTS[other_tags[2]][n] \in Executed

\* C12: when a clone, configure, build or install step fails, or the version
\* constants of a tag are missing, the run aborts at that step: the failed
\* step is the last pipeline step of the run, no child was or is launched, no
\* table is printed, and the exit status is 1.
C12_FailedStepAborts ==
    /\ \A i \in DOMAIN steps :
          (steps[i].step = "version" /\ fs[steps[i].tag].version = NoVersion)
              => ~steps[i].ok
    /\ (\E i \in DOMAIN steps : ~steps[i].ok) =>
          /\ \A i \in DOMAIN steps : ~steps[i].ok => i = Len(steps)
          /\ procs = << >>
          /\ table_auto = NoTable
          /\ table_tests = NoTable
          /\ pc = "crashed"
          /\ exit_code = 1

\* The install step of the second tag failed after the first tag went through
\* its whole pipeline.
C12_Witness ==
    /\ pc = "crashed"
    /\ Len(steps) > 1
    /\ steps[Len(steps)] = [tag |-> other_tags[2], step |-> "install", ok |-> FALSE]
    /\ \E i \in DOMAIN steps : steps[i].tag = other_tags[1] /\ steps[i].step = "discover"

\* <cwd>/<dut tag>/prefix
DutPrefix == <<"cwd", ToString(Dut), "prefix">>

\* The path p lies under the directory d.
Under(p, d) == Len(p) >= Len(d) /\ SubSeq(p, 1, Len(d)) = d

\* The variables the script sets for its children.
SetForChild == {"LD_LIBRARY_PATH", "DYLD_LIBRARY_PATH", "PATH"}

\* The environment of the claim: the library paths are the DUT prefix's lib
\* directory, PATH is the DUT prefix's bin directory followed by the parent's
\* PATH, every other variable is the parent's.
ClaimedEnviron ==
    [n \in DOMAIN os_environ \cup SetForChild |->
        CASE n \in {"LD_LIBRARY_PATH", "DYLD_LIBRARY_PATH"} -> <<DutPrefix \o <<"lib">>>>
          [] n = "PATH" -> <<DutPrefix \o <<"bin">>>> \o os_environ["PATH"]
          [] OTHER -> os_environ[n]]

\* C13: every child gets the same environment: LD_LIBRARY_PATH and
\* DYLD_LIBRARY_PATH are the DUT prefix's lib directory, PATH is the DUT
\* prefix's bin directory followed by the parent's PATH, every other variable
\* is the parent's, and no entry lies under the tree of a non-DUT tag.
C13_ChildEnvironment ==
    /\ \A p \in DOMAIN procs : procs[p].env = ClaimedEnviron
    /\ procs # << >> =>
          \A n \in DOMAIN procs[1].env : \A k \in DOMAIN procs[1].env[n] :
              \A t \in Range(other_tags) :
                  ~Under(procs[1].env[n][k], <<"cwd", ToString(t)>>)

\* A unit test of the first tag and an automation case of the second tag
\* have both been started.
C13_Witness ==
    /\ Len(procs) >= 2
    /\ TagOfChild(1) = other_tags[1]
    /\ Len(procs[1].cmd) = 1
    /\ TagOfChild(Len(procs)) = other_tags[2]
    /\ Len(procs[Len(procs)].cmd) = 3

\* Every test name discovered for any tag, the DUT included.
DiscoveredNames == UNION {Range(fs[t].tests) : t \in Range(other_tags) \cup {Dut}}

\* C14: when the run is over, the unit-test table has a row for every test
\* name discovered for any tag and a column for every non-DUT tag; each cell
\* shows the result recorded for the pair, and n/a when none was recorded.
C14_UnitTestTable ==
    ((pc = "done" \/ ReportCrashed) /\ DiscoveredNames # {}) =>
        /\ DOMAIN table_tests = DiscoveredNames \X Range(other_tags)
        /\ \A n \in DiscoveredNames : \A t \in Range(other_tags) :
              table_tests[<<n, t>>] =
                  IF t \in DOMAIN TEST_RESULTS /\ n \in DOMAIN TEST_RESULTS[t]
                  THEN TEST_RESULTS[t][n]
                  ELSE NA

\* The case loop of the tag in progress is running or has just ended.
InCaseLoop == pc \in {"case", "case_run"}

\* C15: during the case loop of a tag the success flag never changes; when
\* the loop ends the flag is updated once, becoming true exactly when it was
\* true and the last case run for the tag has the result SUCCESS, whatever
\* the results of the earlier cases.
C15_LastCaseDecides ==
    /\ [][(InCaseLoop /\ InCaseLoop') => success' = success]_vars
    /\ [][(pc = "case" /\ pc' = "tag" /\ TAG_AUTOMATION_CASES[CurTag] # << >>) =>
             LET cases == TAG_AUTOMATION_CASES[CurTag]
                 last == TESTAUTOMATION_RESULTS[CurTag][cases[Len(cases)]]
             IN /\ success' = (success /\ last = SUCCESS)
                /\ ti' = ti + 1]_vars

\* A finished run that returns 0 although the first automation case of a tag
\* FAILED or timed out: its last case succeeded.
C15_Witness ==
    /\ pc = "done"
    /\ exit_code = 0
    /\ \E t \in DOMAIN TESTAUTOMATION_RESULTS :
          /\ DOMAIN TESTAUTOMATION_RESULTS[t] = {case_a, case_b}
          /\ TESTAUTOMATION_RESULTS[t][case_a] \in {FAILED, TIMEOUT}
          /\ TESTAUTOMATION_RESULTS[t][case_b] = SUCCESS

\* The steps one tag goes through, given the options.
PlanOfTag(t) ==
    (IF args.clone THEN <<[tag |-> t, step |-> "clone"]>> ELSE << >>)
    \o <<[tag |-> t, step |-> "version"]>>
    \o (IF args.build
        THEN <<[tag |-> t, step |-> "configure"], [tag |-> t, step |-> "build"],
               [tag |-> t, step |-> "install"]>>
        ELSE << >>)
    \o <<[tag |-> t, step |-> "discover"]>>

\* The steps of the whole pipeline: the other tags in the caller's order, then the DUT.
Plan == PlanOfTag(other_tags[1]) \o PlanOfTag(other_tags[2]) \o PlanOfTag(Dut)

\* C16: the pipeline steps run so far are the beginning of the plan (the
\* other tags in the caller's order, the DUT last; per tag: clone, version
\* parse, configure, build, install, test discovery), and a child exists only
\* once the whole plan, the DUT's test discovery included, has succeeded.
C16_PipelineOrder ==
    /\ Len(steps) <= Len(Plan)
    /\ \A i \in DOMAIN steps :
          steps[i].tag = Plan[i].tag /\ steps[i].step = Plan[i].step
    /\ procs # << >> =>
          /\ Len(steps) = Len(Plan)
          /\ \A i \in DOMAIN steps : steps[i].ok

\* A test runs after three tags were cloned, configured, built and installed.
C16_Witness ==
    /\ procs # << >>
    /\ args.clone
    /\ args.build
    /\ Len(steps) = Len(Plan)

\* The child of the call in progress.
CurChild == procs[Len(procs)]

\* C17: every call of run_process_with_timeout returns, even when its child
\* never exits on its own; the polling loop sleeps again only while the child
\* is running and the elapsed time has not exceeded the timeout, and the clock
\* has advanced when it wakes.
C17_RunnerAlwaysReturns ==
    /\ (rpc # "idle") ~> (rpc = "idle")
    /\ [][(rpc = "loop" /\ elapsed' # elapsed /\ rpc' = "loop") =>
             /\ CurChild.state = "running"
             /\ elapsed <= timeout
             /\ elapsed' > elapsed]_vars
    /\ [][(rpc = "loop" /\ rpc' = "final") =>
             (CurChild.state # "running" \/ elapsed > timeout)]_vars

\* The call for a child that never exited has returned TIMEOUT, and the
\* script has gone on to launch the next child.
C17_Witness ==
    /\ Len(procs) = 2
    /\ procs[1].state = "killed"
    /\ rpc = "loop"
    /\ elapsed = 0

\* Automation mode is enabled, by --testautomation or by the case filter.
AutomationMode == args.testautomation \/ args.filter_testautomation # << >>

\* No tag has an automation case that the case filter keeps.
NoCaseDiscovered ==
    \A t \in Range(other_tags) \cup {Dut} : \A c \in Range(fs[t].cases) :
        Excluded(args.filter_testautomation, c)

\* C18: in automation mode, when no automation case was discovered for any
\* tag (or the filter removed them all) and every tag passed the version
\* check, the run ends by main returning its exit code, with an automation
\* table without rows and the unit-test table printed for the discovered
\* names.
C18_ReportCompletesWithoutCases ==
    ((pc = "done" \/ ReportCrashed) /\ AutomationMode /\ NoCaseDiscovered
        /\ \A t \in Range(other_tags) : Eligible(t)) =>
        /\ pc = "done"
        /\ exit_code \in {0, 1}
        /\ table_auto = NoTable
        /\ DiscoveredNames # {} =>
              DOMAIN table_tests = DiscoveredNames \X Range(other_tags)

\* C19: in --github mode the assertion of the section printer never fails, at
\* most one "::group::" marker is without its "::endgroup::" at any time, and
\* none is when the run has ended.
C19_GroupsNeverNestedAlwaysClosed ==
    args.github =>
        /\ exception # "AssertionError"
        /\ unclosed \in {0, 1}
        /\ pc \in {"done", "crashed"} => unclosed = 0

====
